---- MODULE Spec2Model ----
(***************************************************************************)
(* Model of setup.py: the asset-provisioning script that removes a stale   *)
(* tmp_hf_repo, clones the Hugging Face repository into it and merge-      *)
(* copies four remote sub-folders into eight local destinations.           *)
(*                                                                         *)
(* The filesystem below the project root is one function from paths        *)
(* (sequences of names) to nodes; a path outside its domain does not       *)
(* exist.  The library calls the script makes (shutil.rmtree, Path.mkdir,  *)
(* shutil.copytree and the shutil.copy2 it uses per file) are modelled by  *)
(* what they do to that function, including the errors they raise.         *)
(***************************************************************************)
EXTENDS Naturals, Sequences, FiniteSets, TLC

VARIABLES
    fs,      \* the filesystem below project_root
    remote,  \* the remote repository as this machine sees it (never changes)
    pc,      \* position of the script: start, clone, check, copy, done, aborted
    i,       \* index of the mapping entry of the outer loop (0: loop not entered)
    j,       \* index of the destination of the inner loop (0: loop not entered)
    raised,  \* the exception that ended the run ("" when none)
    run,     \* which invocation of the script this is (1 or 2)
    fs0,     \* history: the filesystem when this run started
    prev,    \* history: the filesystem when the previous run ended
    log      \* history: the calls this run has made, in order

vars == <<fs, remote, pc, i, j, raised, run, fs0, prev, log>>

(* ---------------------------- bounds ---------------------------------- *)

\* A folder of the initial filesystem or of the remote holds at most this
\* many files and directories (and so is at most this deep).
MaxNodes == 2

\* Names of the files and directories inside a folder.
Names == {"f", "g"}

(* ---------------------------- nodes ----------------------------------- *)

Dir == [kind |-> "dir", data |-> <<>>]

File(c) == [kind |-> "file", data |-> c]

\* Content of a file that was on disk before the first run.
OldData == <<"old">>

(* ---------------------------- paths ----------------------------------- *)

IsPrefix(p, q) == Len(p) <= Len(q) /\ SubSeq(q, 1, Len(p)) = p

Exists(f, p) == p \in DOMAIN f

IsDir(f, p) == Exists(f, p) /\ f[p].kind = "dir"

IsFile(f, p) == Exists(f, p) /\ f[p].kind = "file"

\* All paths of f at or below p.
Under(f, p) == {q \in DOMAIN f : IsPrefix(p, q)}

\* The subtree of f at p, as a function of the paths relative to p.
Sub(f, p) ==
    [r \in {SubSeq(q, Len(p) + 1, Len(q)) : q \in Under(f, p)} |-> f[p \o r]]

Put(f, p, n) == [q \in DOMAIN f \cup {p} |-> IF q = p THEN n ELSE f[q]]

\* The tree t placed at path p, as a filesystem fragment.
Graft(p, t) == [q \in {p \o r : r \in DOMAIN t} |-> t[SubSeq(q, Len(p) + 1, Len(q))]]

\* g laid over f: g's nodes win.
Overlay(f, g) == [q \in DOMAIN f \cup DOMAIN g |-> IF q \in DOMAIN g THEN g[q] ELSE f[q]]

\* The one element of a singleton set (any element of a larger one).  Used
\* as Only({e(x) : x \in {v}}) to name a value v once and use it often.
Only(S) == CHOOSE x \in S : TRUE

\* Names of the entries of directory p (os.scandir).
Children(f, p) == {q[Len(p) + 1] : q \in {r \in DOMAIN f : Len(r) = Len(p) + 1 /\ IsPrefix(p, r)}}

(* ------------------------ the script's constants ---------------------- *)

tmp_repo == <<"tmp_hf_repo">>

\* The table iterated in sorted key order instead of the order written.
tasksSorted == <<
    [remote_folder |-> "data _enronsent",
     destinations  |-> << <<<<"ML", "try2">>, "data">>,
                          <<<<"Evaluation", "try2">>, "data">> >>],
    [remote_folder |-> "data_vocab",
     destinations  |-> << <<<<"Evaluation", "try1">>, "data">>,
                          <<<<"ML", "try1">>, "data">> >>],
    [remote_folder |-> "models_enronsent",
     destinations  |-> << <<<<"ML", "try2">>, "models">>,
                          <<<<"Evaluation", "try2">>, "models">> >>],
    [remote_folder |-> "models_vocab",
     destinations  |-> << <<<<"Evaluation", "try1">>, "models">>,
                          <<<<"ML", "try1">>, "models">> >>]
>>

\* The table with the try1 destinations pasted into the "data _enronsent"
\* entry unchanged.
tasksPasted == <<
    [remote_folder |-> "data_vocab",
     destinations  |-> << <<<<"Evaluation", "try1">>, "data">>,
                          <<<<"ML", "try1">>, "data">> >>],
    [remote_folder |-> "models_vocab",
     destinations  |-> << <<<<"Evaluation", "try1">>, "models">>,
                          <<<<"ML", "try1">>, "models">> >>],
    [remote_folder |-> "data _enronsent",
     destinations  |-> << <<<<"Evaluation", "try1">>, "data">>,
                          <<<<"ML", "try1">>, "data">> >>],
    [remote_folder |-> "models_enronsent",
     destinations  |-> << <<<<"ML", "try2">>, "models">>,
                          <<<<"Evaluation", "try2">>, "models">> >>]
>>

\* Lines 21-38: the mapping of remote sub-folders to (base_dir, sub) pairs,
\* in the order the dict is written (the order its items() are iterated).
tasks == <<
    [remote_folder |-> "data_vocab",
     destinations  |-> << <<<<"Evaluation", "try1">>, "data">>,
                          <<<<"ML", "try1">>, "data">> >>],
    [remote_folder |-> "models_vocab",
     destinations  |-> << <<<<"Evaluation", "try1">>, "models">>,
                          <<<<"ML", "try1">>, "models">> >>],
    [remote_folder |-> "data _enronsent",
     destinations  |-> << <<<<"ML", "try2">>, "data">>,
                          <<<<"Evaluation", "try2">>, "data">> >>],
    [remote_folder |-> "models_enronsent",
     destinations  |-> << <<<<"ML", "try2">>, "models">>,
                          <<<<"Evaluation", "try2">>, "models">> >>]
>>

\* src = tmp_repo / remote_folder
SrcOf(k) == tmp_repo \o <<tasks[k].remote_folder>>

\* dest = base_dir / sub
DestOf(k, d) == tasks[k].destinations[d][1] \o <<tasks[k].destinations[d][2]>>

Entries == DOMAIN tasks

DestIdx(k) == DOMAIN tasks[k].destinations

\* Every destination path of the table.
DestPaths == UNION {{DestOf(k, d) : d \in DestIdx(k)} : k \in Entries}

(* ------------------------- library calls ------------------------------ *)

\* shutil.rmtree(p): removes p and all below it; raises on a non-directory.
RmTree(f, p) ==
    IF ~IsDir(f, p)
    THEN [fs |-> f, err |-> "NotADirectoryError"]
    ELSE [fs |-> [q \in DOMAIN f \ Under(f, p) |-> f[q]], err |-> ""]

\* Path.mkdir(parents=True, exist_ok=True): creates p and its missing
\* ancestors; raises, creating nothing, when p or an ancestor is a file.
Mkdir(f, p) ==
    LET pre == {SubSeq(p, 1, n) : n \in 1..Len(p)} IN
    IF \E q \in pre : IsFile(f, q)
    THEN [fs |-> f, err |-> IF IsFile(f, p) THEN "FileExistsError" ELSE "NotADirectoryError"]
    ELSE [fs |-> [q \in DOMAIN f \cup pre |-> IF q \in DOMAIN f THEN f[q] ELSE Dir], err |-> ""]

\* A copy that appends to a file already there instead of replacing it.
Copy2Append(f, s, d) ==
    LET t == IF IsDir(f, d) THEN d \o <<s[Len(s)]>> ELSE d IN
    IF IsDir(f, t)
    THEN [fs |-> f, failed |-> TRUE]
    ELSE [fs |-> Put(f, t, IF IsFile(f, t) THEN File(f[t].data \o f[s].data) ELSE f[s]),
          failed |-> FALSE]

\* shutil.copy2(s, d): if d is a directory the file goes INTO it under s's
\* own name; writing onto a directory fails.
Copy2(f, s, d) ==
    LET t == IF IsDir(f, d) THEN d \o <<s[Len(s)]>> ELSE d IN
    IF IsDir(f, t)
    THEN [fs |-> f, failed |-> TRUE]
    ELSE [fs |-> Put(f, t, f[s]), failed |-> FALSE]

RECURSIVE CopyTree(_, _, _)
RECURSIVE CopyEntries(_, _, _, _)

\* One entry of the directory being copied: a sub-directory recurses, a file
\* is copied with copy2; an error is collected and the copy goes on.
CopyEntry(f, s, d) ==
    IF IsDir(f, s)
    THEN Only({[fs |-> r.fs, failed |-> r.err # ""] : r \in {CopyTree(f, s, d)}})
    ELSE Copy2(f, s, d)

\* The entries `names` of src, one after the other (they write to different
\* places, so the order os.scandir yields them in does not matter).
CopyEntries(f, src, dst, names) ==
    IF names = {}
    THEN [fs |-> f, failed |-> FALSE]
    ELSE Only({Only({[fs |-> r2.fs, failed |-> r1.failed \/ r2.failed] :
                        r2 \in {CopyEntries(r1.fs, src, dst, names \ {n})}}) :
                  n \in {Only(names)}, r1 \in {CopyEntry(f, src \o <<Only(names)>>, dst \o <<Only(names)>>)}})

\* shutil.copytree(src, dst, dirs_exist_ok=True): os.makedirs(dst,
\* exist_ok=True), then every entry; the collected errors are raised at the end.
CopyTree(f, src, dst) ==
    IF IsFile(f, dst)
    THEN [fs |-> f, err |-> "FileExistsError"]
    ELSE Only({Only({[fs |-> r.fs, err |-> IF r.failed THEN "shutil.Error" ELSE ""] :
                        r \in {CopyEntries(g, src, dst, Children(g, src))}}) :
                  g \in {Put(f, dst, Dir)}})

\* Repository(local_dir, clone_from): the working copy of the remote in p.
\* The script only ever calls it after p was removed.
CloneInto(f, p, tree) == Overlay(Put(f, p, Dir), Graft(p, tree))

(* ----------------------- the program's steps -------------------------- *)

\* One call of the run: what was called, for which remote folder, on which
\* path, and the exception it raised ("" when it returned).
Event(op, key, dest, err) == [op |-> op, key |-> key, dest |-> dest, err |-> err]

Abort(e) == pc' = "aborted" /\ raised' = e

\* The script without its cleanup of tmp_repo.
RemoveStaleSkip ==
    /\ pc = "start"
    /\ pc' = "clone"
    /\ UNCHANGED <<fs, log, raised, remote, i, j, run, fs0, prev>>

\* Lines 11-12: if tmp_repo.exists(): shutil.rmtree(tmp_repo)
RemoveStale ==
    /\ pc = "start"
    /\ IF Exists(fs, tmp_repo)
       THEN LET r == RmTree(fs, tmp_repo) IN
            /\ fs' = r.fs
            /\ log' = Append(log, Event("rmtree", "", tmp_repo, r.err))
            /\ IF r.err # "" THEN Abort(r.err) ELSE pc' = "clone" /\ raised' = raised
       ELSE /\ pc' = "clone"
            /\ UNCHANGED <<fs, log, raised>>
    /\ UNCHANGED <<remote, i, j, run, fs0, prev>>

\* A clone whose failure is swallowed: the script goes on to the copy loop.
CloneIgnoreFailure ==
    /\ pc = "clone"
    /\ log' = Append(log, Event("clone", "", tmp_repo, IF remote.reachable THEN "" ELSE "OSError"))
    /\ fs' = IF remote.reachable THEN CloneInto(fs, tmp_repo, remote.tree) ELSE Put(fs, tmp_repo, Dir)
    /\ pc' = "check"
    /\ i' = 1
    /\ UNCHANGED <<raised, remote, j, run, fs0, prev>>

\* Lines 13-17: repo = Repository(local_dir, clone_from, use_auth_token).
\* The constructor makes local_dir before it clones; an unreachable remote
\* (network, authentication, no such repository) raises.
Clone ==
    /\ pc = "clone"
    /\ IF IsFile(fs, tmp_repo)
       THEN /\ log' = Append(log, Event("clone", "", tmp_repo, "FileExistsError"))
            /\ Abort("FileExistsError")
            /\ UNCHANGED <<fs, i>>
       ELSE IF remote.reachable
       THEN /\ log' = Append(log, Event("clone", "", tmp_repo, ""))
            /\ fs' = CloneInto(fs, tmp_repo, remote.tree)
            /\ pc' = "check"
            /\ i' = 1
            /\ raised' = raised
       ELSE /\ log' = Append(log, Event("clone", "", tmp_repo, "OSError"))
            /\ fs' = Put(fs, tmp_repo, Dir)
            /\ Abort("OSError")
            /\ i' = i
    /\ UNCHANGED <<remote, j, run, fs0, prev>>

\* A check that skips an entry whose source is missing instead of raising.
CheckSourceSkip ==
    /\ pc = "check"
    /\ i \in Entries
    /\ IF IsDir(fs, SrcOf(i))
       THEN /\ log' = Append(log, Event("check", tasks[i].remote_folder, SrcOf(i), ""))
            /\ pc' = "copy"
            /\ j' = 1
            /\ i' = i
       ELSE /\ log' = Append(log, Event("check", tasks[i].remote_folder, SrcOf(i), "FileNotFoundError"))
            /\ pc' = IF i < Len(tasks) THEN "check" ELSE "done"
            /\ i' = i + 1
            /\ j' = j
    /\ UNCHANGED <<fs, remote, raised, run, fs0, prev>>

\* Lines 41-44: the head of the outer loop: src = tmp_repo / remote_folder;
\* if not src.is_dir(): raise FileNotFoundError.
CheckSource ==
    /\ pc = "check"
    /\ i \in Entries
    /\ IF IsDir(fs, SrcOf(i))
       THEN /\ log' = Append(log, Event("check", tasks[i].remote_folder, SrcOf(i), ""))
            /\ pc' = "copy"
            /\ j' = 1
            /\ raised' = raised
       ELSE /\ log' = Append(log, Event("check", tasks[i].remote_folder, SrcOf(i), "FileNotFoundError"))
            /\ Abort("FileNotFoundError")
            /\ j' = j
    /\ UNCHANGED <<fs, remote, i, run, fs0, prev>>

\* A copy loop that swallows the errors of mkdir and copytree and goes on.
CopyDestIgnoreErrors ==
    /\ pc = "copy"
    /\ i \in Entries
    /\ j \in DestIdx(i)
    /\ \E dest \in {DestOf(i, j)} :
       \E m \in {Mkdir(fs, dest)} :
       \E c \in {CopyTree(m.fs, SrcOf(i), dest)} :
           /\ log' = Append(log, Event("copy", tasks[i].remote_folder, dest,
                                       IF m.err # "" THEN m.err ELSE c.err))
           /\ fs' = IF m.err # "" THEN m.fs ELSE c.fs
           /\ raised' = raised
           /\ IF j < Len(tasks[i].destinations)
              THEN j' = j + 1 /\ UNCHANGED <<pc, i>>
              ELSE /\ i' = i + 1
                   /\ j' = j
                   /\ pc' = IF i < Len(tasks) THEN "check" ELSE "done"
    /\ UNCHANGED <<remote, run, fs0, prev>>

\* Lines 45-48: one pass of the inner loop: dest = base_dir / sub;
\* dest.mkdir(parents=True, exist_ok=True); shutil.copytree(src, dest,
\* dirs_exist_ok=True); then the next destination, the next entry, or the end.
CopyDest ==
    /\ pc = "copy"
    /\ i \in Entries
    /\ j \in DestIdx(i)
    /\ \E dest \in {DestOf(i, j)} :
       \E m \in {Mkdir(fs, dest)} :
       \E c \in {CopyTree(m.fs, SrcOf(i), dest)} :
           /\ log' = Append(log, Event("copy", tasks[i].remote_folder, dest,
                                       IF m.err # "" THEN m.err ELSE c.err))
           /\ IF m.err # ""
              THEN fs' = m.fs /\ Abort(m.err) /\ UNCHANGED <<i, j>>
              ELSE IF c.err # ""
              THEN fs' = c.fs /\ Abort(c.err) /\ UNCHANGED <<i, j>>
              ELSE /\ fs' = c.fs
                   /\ raised' = raised
                   /\ IF j < Len(tasks[i].destinations)
                      THEN j' = j + 1 /\ UNCHANGED <<pc, i>>
                      ELSE /\ i' = i + 1
                           /\ j' = j
                           /\ pc' = IF i < Len(tasks) THEN "check" ELSE "done"
    /\ UNCHANGED <<remote, run, fs0, prev>>

\* The script is invoked a second time on what the first run left behind.
Rerun ==
    /\ pc \in {"done", "aborted"}
    /\ run = 1
    /\ run' = 2
    /\ pc' = "start"
    /\ i' = 0
    /\ j' = 0
    /\ raised' = ""
    /\ log' = <<>>
    /\ fs0' = fs
    /\ prev' = fs
    /\ UNCHANGED <<fs, remote>>

(* ------------------------- initial states ----------------------------- *)

RelPaths == UNION {[1..n -> Names] : n \in 1..MaxNodes}

Parent(p) == SubSeq(p, 1, Len(p) - 1)

\* The directory trees of at most MaxNodes nodes whose files are `leaf`.
Shapes(leaf) ==
    UNION {
        {t \in [P \cup {<<>>} -> {Dir, leaf}] :
            /\ t[<<>>] = Dir
            /\ \A p \in P : (\E q \in P : Len(q) > Len(p) /\ IsPrefix(p, q)) => t[p] = Dir}
        : P \in {Q \in SUBSET RelPaths :
                    /\ Cardinality(Q) <= MaxNodes
                    /\ \A p \in Q : Len(p) > 1 => Parent(p) \in Q}}

\* No remote folder is broken.
Intact == [key |-> 0, kind |-> "ok"]

\* A remote sub-folder may be absent from the repository or be a file there.
Broken ==
    {Intact}
        \cup {[key |-> k, kind |-> t] : k \in Entries, t \in {"missing", "file"}}

\* The remote repository: every mapped folder has shape T (its files hold
\* the folder's name), but for the broken one.
RemoteTree(T, b, tag) ==
    LET folder(k) == <<tasks[k].remote_folder>>
        dom == {folder(k) \o r : k \in {e \in Entries : e # b.key}, r \in DOMAIN T}
                  \cup {folder(k) : k \in {e \in Entries : e = b.key /\ b.kind = "file"}}
    IN  [q \in dom |->
            IF Len(q) = 1 /\ b.key \in Entries /\ q = folder(b.key) THEN File(<<q[1]>> \o tag)
            ELSE IF T[Tail(q)].kind = "file" THEN File(<<q[1]>> \o tag)
            ELSE Dir]

SrcShapes == Shapes(File(<<>>))

\* What a destination path may hold before the first run: nothing, a file,
\* or a directory tree.
DestNodes ==
    Shapes(File(OldData))
        \cup {[p \in {<<>>} |-> File(OldData)], [p \in {} |-> Dir]}

\* f with the missing ancestors of its paths added as directories.
WithParents(f) ==
    LET anc == UNION {{SubSeq(q, 1, n) : n \in 1..Len(q)} : q \in DOMAIN f}
    IN  [q \in DOMAIN f \cup anc |-> IF q \in DOMAIN f THEN f[q] ELSE Dir]

\* Every destination holds D.
DestsHolding(D) ==
    LET dom == UNION {{p \o r : r \in DOMAIN D} : p \in DestPaths}
        at(q) == CHOOSE p \in DestPaths : IsPrefix(p, q)
    IN  WithParents([q \in dom |-> D[SubSeq(q, Len(at(q)) + 1, Len(q))]])

\* The shapes without sub-directory content.
Flat(S) == {t \in S : \A p \in DOMAIN t : Len(p) <= 1}

\* tmp_hf_repo as an earlier run, or something else, left it.
StaleTmp ==
    {Graft(tmp_repo, Overlay([p \in {<<>>} |-> Dir], RemoteTree(T, Intact, <<"stale">>))) :
        T \in Flat(SrcShapes)}
        \cup {Graft(tmp_repo, [p \in {<<>>} |-> File(OldData)])}

InitWith(f, r) ==
    /\ fs = f
    /\ remote = r
    /\ pc = "start"
    /\ i = 0
    /\ j = 0
    /\ raised = ""
    /\ run = 1
    /\ fs0 = f
    /\ prev = f
    /\ log = <<>>

\* The remote is complete and reachable; every destination holds D.
InitMerge ==
    \E T \in SrcShapes, D \in DestNodes :
        InitWith(DestsHolding(D), [reachable |-> TRUE, tree |-> RemoteTree(T, Intact, <<>>)])

\* One remote folder is broken; every destination holds D.
InitBroken ==
    \E T \in Flat(SrcShapes), D \in Flat(DestNodes), b \in Broken \ {Intact} :
        InitWith(DestsHolding(D), [reachable |-> TRUE, tree |-> RemoteTree(T, b, <<>>)])

\* The remote cannot be cloned; every destination holds D.
InitUnreachable ==
    \E D \in DestNodes :
        InitWith(DestsHolding(D),
                 [reachable |-> FALSE, tree |-> RemoteTree([p \in {<<>>} |-> Dir], Intact, <<>>)])

\* tmp_hf_repo was left behind; no destination exists yet.
InitStale ==
    \E t \in StaleTmp, T \in SrcShapes, ok \in BOOLEAN :
        InitWith(t, [reachable |-> ok, tree |-> RemoteTree(T, Intact, <<>>)])

Init == InitMerge \/ InitBroken \/ InitUnreachable \/ InitStale

\* The initial states whose folders hold at most one entry, named "f".
InitFlat ==
    /\ Init
    /\ \A p \in DOMAIN fs : Len(p) <= 4 /\ p[Len(p)] # "g"
    /\ \A p \in DOMAIN remote.tree : Len(p) <= 2 /\ p[Len(p)] # "g"

Next == RemoveStale \/ Clone \/ CheckSource \/ CopyDest \/ Rerun

Spec == Init /\ [][Next]_vars

\* The script runs on: every call it makes returns or raises.
FairSpec == InitFlat /\ [][Next]_vars /\ WF_vars(Next)

(* ----------------------------- claims --------------------------------- *)

\* The run has a clone of the remote in tmp_repo: it is in, or ended in, the
\* copy loop.
Cloned ==
    \/ pc \in {"check", "copy", "done"}
    \/ pc = "aborted" /\ log # <<>> /\ log[Len(log)].op \in {"check", "copy"}

\* Destination (k, d) holds every path of source folder k with the source's
\* content.
HoldsCopy(k, d) ==
    /\ IsDir(fs, DestOf(k, d))
    /\ \A r \in DOMAIN Sub(fs, SrcOf(k)) :
          /\ Exists(fs, DestOf(k, d) \o r)
          /\ fs[DestOf(k, d) \o r] = fs[SrcOf(k) \o r]

\* The filesystem outside tmp_hf_repo.
OutsideTmp(f) == [q \in DOMAIN f \ Under(f, tmp_repo) |-> f[q]]

\* The entry of the table that writes destination path p.
EntryOf(p) == CHOOSE k \in Entries : \E d \in DestIdx(k) : DestOf(k, d) = p

\* The paths of remote folder k, relative to it.
RemotePaths(k) == DOMAIN Sub(remote.tree, <<tasks[k].remote_folder>>)

Calls(op) == {n \in DOMAIN log : log[n].op = op}

\* C1: after a run that completes without error, every destination of every
\* mapping key is a directory that holds every relative path of the cloned
\* source sub-folder with content identical to the source's.
C1_DestsHoldSources ==
    pc = "done" => \A k \in Entries : \A d \in DestIdx(k) : HoldsCopy(k, d)

\* C2: a source sub-folder that is not a directory of the clone makes the run
\* abort (it never ends Done, and a run stopped at a check raised
\* FileNotFoundError for a source that is no directory), and no destination
\* of that entry or of a later one differs from what it was at the run's start.
C2_MissingSourceAborts ==
    /\ pc = "done" => \A k \in Entries : IsDir(fs, SrcOf(k))
    /\ (pc = "aborted" /\ log # <<>> /\ log[Len(log)].op = "check")
          => raised = "FileNotFoundError" /\ ~IsDir(fs, SrcOf(i))
    /\ \A k \in Entries :
          (Cloned /\ ~IsDir(fs, SrcOf(k)))
             => \A k2 \in Entries : \A d \in DestIdx(k2) :
                   k2 >= k => Sub(fs, DestOf(k2, d)) = Sub(fs0, DestOf(k2, d))

\* C2's case: the run aborted at the third entry, after copying the first two.
C2_Witness ==
    /\ pc = "aborted"
    /\ raised = "FileNotFoundError"
    /\ i = 3
    /\ ~IsDir(fs, SrcOf(3))
    /\ Sub(fs, DestOf(1, 1)) # Sub(fs0, DestOf(1, 1))

\* C3: whatever was in a destination directory before the run, at a relative
\* path that does not occur in the corresponding source sub-folder, is still
\* there with the same content, at every point of the run.
C3_UnrelatedUntouched ==
    \A p \in DestPaths : \A r \in DOMAIN Sub(fs0, p) :
        (r # <<>> /\ r \notin RemotePaths(EntryOf(p)))
           => Exists(fs, p \o r) /\ fs[p \o r] = fs0[p \o r]

\* C4: the clone begins only with tmp_hf_repo gone, and once the clone has
\* succeeded tmp_hf_repo holds exactly the remote's content: nothing of an
\* earlier tmp_hf_repo survives.
C4_StaleCloneReplaced ==
    /\ pc = "clone" => Under(fs, tmp_repo) = {}
    /\ Cloned => Sub(fs, tmp_repo) = Overlay([p \in {<<>>} |-> Dir], remote.tree)

\* C4's case: tmp_hf_repo existed at the start with a path the remote does
\* not have, and the clone succeeded.
C4_Witness ==
    /\ Cloned
    /\ \E q \in Under(fs0, tmp_repo) : SubSeq(q, 2, Len(q)) \notin DOMAIN remote.tree /\ Len(q) > 1

\* C5: when the second of two runs against the same remote has ended,
\* everything outside tmp_hf_repo (every destination, at every path) is as
\* the first run left it.
C5_Idempotent ==
    (run = 2 /\ pc \in {"done", "aborted"}) => OutsideTmp(fs) = OutsideTmp(prev)

\* C5's case: the second run completed, over destinations that held files
\* before the first run and files copied by it.
C5_Witness ==
    /\ run = 2
    /\ pc = "done"
    /\ \E q \in DOMAIN fs : fs[q].data = OldData
    /\ \E q \in DOMAIN OutsideTmp(fs) : fs[q].kind = "file" /\ fs[q].data # OldData

\* C6: once the clone has been attempted against an unreachable remote the
\* run is aborted with the clone's error, the clone was attempted once, no
\* source was checked and nothing was copied, and nothing outside
\* tmp_hf_repo differs from the run's start.
C6_CloneFailureAborts ==
    (Calls("clone") # {} /\ ~remote.reachable)
       => /\ pc = "aborted"
          /\ raised = "OSError"
          /\ Cardinality(Calls("clone")) = 1
          /\ Calls("check") = {}
          /\ Calls("copy") = {}
          /\ OutsideTmp(fs) = OutsideTmp(fs0)

\* C6's case: the clone failed while the destinations held earlier content.
C6_Witness ==
    /\ pc = "aborted"
    /\ raised = "OSError"
    /\ \A p \in DestPaths : Cardinality(Under(fs, p)) > 1

\* C7: when the run aborts at entry i for a missing source, every
\* destination of every entry before i holds the complete copy of its source.
C7_EarlierEntriesComplete ==
    (pc = "aborted" /\ raised = "FileNotFoundError")
       => \A k \in Entries : \A d \in DestIdx(k) : k < i => HoldsCopy(k, d)

\* The copies that returned without raising.
CopiesDone == {n \in Calls("copy") : log[n].err = ""}

\* How a run stands: Done exactly when the clone succeeded and all eight
\* copies of the four entries were performed with no exception raised;
\* Aborted exactly when an exception was raised, as it is by a failed clone
\* and by a missing source directory.
RunOutcome ==
    /\ pc = "done" <=>
          /\ raised = ""
          /\ \E n \in Calls("clone") : log[n].err = ""
          /\ Cardinality(Calls("check")) = 4
          /\ Cardinality(CopiesDone) = 8
    /\ pc = "aborted" <=> raised # ""
    /\ (\E n \in DOMAIN log : log[n].op \in {"clone", "check"} /\ log[n].err # "")
          => pc = "aborted"

\* C8: every run ends, Done or Aborted, and which of the two is decided as
\* RunOutcome says.
C8_EndsDoneOrAborted ==
    /\ (pc = "start") ~> (pc \in {"done", "aborted"})
    /\ []RunOutcome

\* C8's case: a run that ended Done.
C8_Witness == pc = "done" /\ run = 1 /\ Cardinality(CopiesDone) = 8

\* The calls of a full run in the order C9 states, the entries in the order
\* it lists them.
ListedOrder == <<"data_vocab", "models_vocab", "data _enronsent", "models_enronsent">>

EntryNamed(name) == CHOOSE k \in Entries : tasks[k].remote_folder = name

CallsOf(name) ==
    LET k == EntryNamed(name) IN
    <<[op |-> "check", key |-> name, dest |-> tmp_repo \o <<name>>]>>
        \o [d \in DestIdx(k) |-> [op |-> "copy", key |-> name, dest |-> DestOf(k, d)]]

ExpectedCalls ==
    <<[op |-> "clone", key |-> "", dest |-> tmp_repo]>>
        \o CallsOf(ListedOrder[1]) \o CallsOf(ListedOrder[2])
        \o CallsOf(ListedOrder[3]) \o CallsOf(ListedOrder[4])

\* The log without the results of the calls and without the cleanup.
CallsMade ==
    LET kept == SelectSeq(log, LAMBDA e : e.op # "rmtree")
    IN  [n \in DOMAIN kept |-> [op |-> kept[n].op, key |-> kept[n].key, dest |-> kept[n].dest]]

\* C9: the calls a run has made are, in order, an initial part of: the one
\* clone, then for each entry in the listed order its source check followed
\* by its copies in list order; the cleanup, if any, comes first.
C9_SingleForwardPass ==
    /\ IsPrefix(CallsMade, ExpectedCalls)
    /\ \A n \in Calls("rmtree") : n = 1

\* C9's case: a complete run, cleanup included.
C9_Witness == pc = "done" /\ Len(log) = 14

\* The entries whose copies wrote at, above or below destination path p.
WritersOf(p) ==
    {log[n].key : n \in {m \in Calls("copy") : IsPrefix(log[m].dest, p) \/ IsPrefix(p, log[m].dest)}}

\* C10: the eight destination paths are pairwise distinct, none is nested in
\* another or in tmp_hf_repo, and in every state each destination has been
\* written from at most one source sub-folder.
C10_DestinationsDisjoint ==
    /\ \A k1 \in Entries, k2 \in Entries : \A d1 \in DestIdx(k1), d2 \in DestIdx(k2) :
          <<k1, d1>> # <<k2, d2>> => ~IsPrefix(DestOf(k1, d1), DestOf(k2, d2))
    /\ Cardinality(DestPaths) = 8
    /\ \A p \in DestPaths : ~IsPrefix(tmp_repo, p) /\ ~IsPrefix(p, tmp_repo)
    /\ \A p \in DestPaths : Cardinality(WritersOf(p)) <= 1

\* C10's case: all eight destinations written, each from one source.
C10_Witness ==
    /\ pc = "done"
    /\ \A p \in DestPaths : Cardinality(WritersOf(p)) = 1

====
